---- MODULE Spec2Model ----
(***************************************************************************)
(* A model of amps-exporter.py: the Prometheus collector that fetches the  *)
(* AMPS admin document (amps.json), walks it by slash-delimited paths and  *)
(* republishes selected fields as gauges.                                  *)
(*                                                                         *)
(* Python values.  A JSON value is a tagged record [t, v]:                 *)
(*   "num"  a number, "str" a string, "null" None,                         *)
(*   "map"  a dict: v is a function from keys (strings) to JSON values,    *)
(*   "list" a list: v is a sequence of JSON values.                        *)
(* A Python str that the code slices, splits or rewrites (a path) is a     *)
(* sequence of one-character strings; a str that is only compared or       *)
(* concatenated (a key, a field name, a gauge name) is a TLA+ string.      *)
(***************************************************************************)
EXTENDS Naturals, Sequences, FiniteSets, TLC

VARIABLES
    upstream,   \* what GET host/amps.json answers at this moment
    skip_ids,   \* the list object bound to generate_metric_group's default skip_ids
    scrape,     \* scrape id -> one consumption of AMPSCollector.collect
    call        \* one direct consumption of generate_metric_group(stats, path, metrics)

vars == <<upstream, skip_ids, scrape, call>>

----------------------------------------------------------------------------
(* JSON values *)

Num(n) == [t |-> "num", v |-> n]
Str(s) == [t |-> "str", v |-> s]
Map(f) == [t |-> "map", v |-> f]
List(s) == [t |-> "list", v |-> s]
Null == [t |-> "null", v |-> 0]

\* a local variable that has not been assigned yet
Unbound == [t |-> "unbound", v |-> 0]

\* the outcome of a Python expression: a value, or a raised exception
Ok(x) == [ok |-> TRUE, val |-> x, err |-> "none"]
Raise(e) == [ok |-> FALSE, val |-> Null, err |-> e]

----------------------------------------------------------------------------
(* str operations used on paths *)

RECURSIVE Join(_)
\* the str made of the characters cs
Join(cs) == IF cs = <<>> THEN "" ELSE Head(cs) \o Join(Tail(cs))

RECURSIVE Split(_)
\* path.split('/'): the maximal slash-free runs, empty ones included
Split(cs) ==
    IF cs = <<>> THEN << <<>> >>
    ELSE LET rest == Split(Tail(cs))
         IN  IF Head(cs) = "/"
             THEN << <<>> >> \o rest
             ELSE << <<Head(cs)>> \o Head(rest) >> \o Tail(rest)

RECURSIVE Replace(_)
\* s.replace('/', '_')
Replace(cs) ==
    IF cs = <<>> THEN <<>>
    ELSE << (IF Head(cs) = "/" THEN "_" ELSE Head(cs)) >> \o Replace(Tail(cs))

\* s[1:]
Slice1(s) == IF s = <<>> THEN <<>> ELSE Tail(s)

----------------------------------------------------------------------------
(* get_value *)

\* node.get(key, 0) in place of node[key]
SubscriptDefault(node, key) ==
    IF node.t = "map"
    THEN IF key \in DOMAIN node.v THEN Ok(node.v[key]) ELSE Ok(Num(0))
    ELSE Raise("TypeError")

\* node[key] for a str key: KeyError on a dict without the key, TypeError on
\* a list, a str, a number or None
Subscript(node, key) ==
    IF node.t = "map"
    THEN IF key \in DOMAIN node.v THEN Ok(node.v[key]) ELSE Raise("KeyError")
    ELSE Raise("TypeError")

RECURSIVE Walk(_, _)
\* the for loop of get_value over the remaining keys
Walk(current_value, keys) ==
    IF keys = <<>> THEN Ok(current_value)
    ELSE LET r == Subscript(current_value, Join(Head(keys)))
         IN  IF r.ok THEN Walk(r.val, Tail(keys)) ELSE r

\* get_value without the [1:]
get_value_all_segments(amps, path) == Walk(amps, Split(path))

get_value(amps, path) == Walk(amps, Slice1(Split(path)))

----------------------------------------------------------------------------
(* METRIC_DOCS *)

PATH_memory == <<"/", "a", "m", "p", "s", "/", "h", "o", "s", "t", "/", "m", "e", "m", "o", "r", "y">>
PATH_network == <<"/", "a", "m", "p", "s", "/", "h", "o", "s", "t", "/", "n", "e", "t", "w", "o", "r", "k">>
PATH_disks == <<"/", "a", "m", "p", "s", "/", "h", "o", "s", "t", "/", "d", "i", "s", "k", "s">>
PATH_cpus == <<"/", "a", "m", "p", "s", "/", "h", "o", "s", "t", "/", "c", "p", "u", "s">>
PATH_processors == <<"/", "a", "m", "p", "s", "/", "i", "n", "s", "t", "a", "n", "c", "e", "/", "p", "r", "o", "c", "e", "s", "s", "o", "r", "s">>
PATH_sow == <<"/", "a", "m", "p", "s", "/", "i", "n", "s", "t", "a", "n", "c", "e", "/", "s", "o", "w">>
PATH_views == <<"/", "a", "m", "p", "s", "/", "i", "n", "s", "t", "a", "n", "c", "e", "/", "v", "i", "e", "w", "s">>
PATH_queues == <<"/", "a", "m", "p", "s", "/", "i", "n", "s", "t", "a", "n", "c", "e", "/", "q", "u", "e", "u", "e", "s">>
PATH_replication == <<"/", "a", "m", "p", "s", "/", "i", "n", "s", "t", "a", "n", "c", "e", "/", "r", "e", "p", "l", "i", "c", "a", "t", "i", "o", "n">>
PATH_clients == <<"/", "a", "m", "p", "s", "/", "i", "n", "s", "t", "a", "n", "c", "e", "/", "c", "l", "i", "e", "n", "t", "s">>

\* METRIC_DOCS: path -> the fields it documents, in the order of the dict literal
METRIC_DOCS ==
    << [path |-> PATH_memory, fields |-> <<"free", "in_use", "swap_free", "swap_total">>],
       [path |-> PATH_network, fields |-> <<"bytes_in", "bytes_out">>],
       [path |-> PATH_disks, fields |-> <<"file_system_free_percent">>],
       [path |-> PATH_cpus, fields |-> <<"iowait_percent", "idle_percent">>],
       [path |-> PATH_processors, fields |-> <<"messages_received_per_sec", "denied_reads", "denied_writes", "last_active", "throttle_count">>],
       [path |-> PATH_sow, fields |-> <<"inserts_per_sec", "updates_per_sec", "deletes_per_sec", "queries_per_sec", "insert_count", "delete_count", "update_count">>],
       [path |-> PATH_views, fields |-> <<"queue_depth">>],
       [path |-> PATH_queues, fields |-> <<"seconds_behind", "queue_depth", "transferred_in", "transferred_out", "owned">>],
       [path |-> PATH_replication, fields |-> <<"is_connected", "seconds_behind", "messages_out_per_sec">>],
       [path |-> PATH_clients, fields |-> <<"transport_rx_queue", "transport_tx_queue", "bytes_in_per_sec", "bytes_out_per_sec", "queue_depth_out", "queue_max_latency">>] >>

\* METRIC_DOCS.get(path, {}).get(metric, ...) finds a description
Documented(path, metric) ==
    \E i \in 1..Len(METRIC_DOCS) :
        /\ METRIC_DOCS[i].path = path
        /\ \E j \in 1..Len(METRIC_DOCS[i].fields) : METRIC_DOCS[i].fields[j] = metric

----------------------------------------------------------------------------
(* generate_metric_group: a generator.  A frame is the suspended call; one *)
(* Resume is one next() on it, running the body up to the next yield, to a *)
(* raised exception or to the end (StopIteration).                         *)

Event(ev, m, e) == [ev |-> ev, m |-> m, e |-> e]

\* a skip test that never matches
InSkipNever(entry_id, skips) == FALSE

\* entry_id in skip_ids (== against each element of the list of str)
InSkip(entry_id, skips) ==
    \E k \in 1..Len(skips) : entry_id = Str(skips[k])

\* gauge.add_metric([label], value)
AddMetric(samples, label, value) ==
    Append(samples, [labels |-> <<label>>, value |-> value])

RECURSIVE PopulateListBreak(_, _, _, _, _, _, _, _)
\* the loop with break in place of continue
PopulateListBreak(entries, i, m, metric, label_key, skips, samples, evs) ==
    IF i > Len(entries) THEN [ok |-> TRUE, samples |-> samples, err |-> "none", evs |-> evs]
    ELSE LET entry == entries[i]
             evs1 == Append(evs, Event("read", m, i))
             id == Subscript(entry, label_key)
         IN  IF ~id.ok
             THEN [ok |-> FALSE, samples |-> samples, err |-> id.err, evs |-> evs1]
             ELSE IF skips # <<>> /\ InSkip(id.val, skips)
             THEN [ok |-> TRUE, samples |-> samples, err |-> "none", evs |-> evs1]
             ELSE LET x == Subscript(entry, metric)
                  IN  IF ~x.ok
                      THEN [ok |-> FALSE, samples |-> samples, err |-> x.err, evs |-> evs1]
                      ELSE PopulateListBreak(entries, i + 1, m, metric, label_key, skips,
                                             AddMetric(samples, id.val, x.val),
                                             Append(evs1, Event("add", m, i)))

RECURSIVE PopulateList(_, _, _, _, _, _, _, _)
\* "for entry in group_entries" from entry i on, for the gauge of metrics[m]
PopulateList(entries, i, m, metric, label_key, skips, samples, evs) ==
    IF i > Len(entries) THEN [ok |-> TRUE, samples |-> samples, err |-> "none", evs |-> evs]
    ELSE LET entry == entries[i]
             evs1 == Append(evs, Event("read", m, i))
             id == Subscript(entry, label_key)
         IN  IF ~id.ok
             THEN [ok |-> FALSE, samples |-> samples, err |-> id.err, evs |-> evs1]
             ELSE IF skips # <<>> /\ InSkip(id.val, skips)
             THEN PopulateList(entries, i + 1, m, metric, label_key, skips, samples, evs1)
             ELSE LET x == Subscript(entry, metric)
                  IN  IF ~x.ok
                      THEN [ok |-> FALSE, samples |-> samples, err |-> x.err, evs |-> evs1]
                      ELSE PopulateList(entries, i + 1, m, metric, label_key, skips,
                                        AddMetric(samples, id.val, x.val),
                                        Append(evs1, Event("add", m, i)))

\* the else branch: one point labelled with the field name
PopulateScalar(group_entries, m, metric) ==
    LET x == Subscript(group_entries, metric)
        evs1 == <<Event("read", m, 0)>>
    IN  IF ~x.ok
        THEN [ok |-> FALSE, samples |-> <<>>, err |-> x.err, evs |-> evs1]
        ELSE [ok |-> TRUE, samples |-> AddMetric(<<>>, Str(metric), x.val), err |-> "none",
              evs |-> Append(evs1, Event("add", m, 0))]

\* metric_name_base without the [1:]
MetricNameBaseKeepSlash(path) == Join(Replace(path)) \o "_"

\* metric_name_base
MetricNameBase(path) == Join(Replace(Slice1(path))) \o "_"

\* GaugeMetricFamily(name, documentation, labels=[metric])
GaugeMetricFamily(name, documented, metric) ==
    [name |-> name, documented |-> documented, labels |-> <<metric>>, samples |-> <<>>]

NoGauge == GaugeMetricFamily("", FALSE, "")

\* the call generate_metric_group(stats, path, metrics): nothing runs yet.
\* The parameter stats refers to the caller's document; the frame does not
\* copy it, and each next() is given the document it refers to.
NewFrame(path, metrics) ==
    [path |-> path, metrics |-> metrics, label_key |-> "id",
     st |-> "created", group_entries |-> Unbound, metric_name_base |-> "",
     is_list |-> FALSE, mi |-> 1]

\* a generator that starts over once it has ended
FinishedRestartable(f) == [f EXCEPT !.st = "created", !.mi = 1]

\* the generator has returned or raised: it is closed for good
Finished(f) == [f EXCEPT !.st = "finished"]

\* lines 111-114, run by the first next()
Prologue(f, stats) ==
    LET r == get_value(stats, f.path)
    IN  IF ~r.ok THEN Raise(r.err)
        ELSE Ok([f EXCEPT !.st = "running",
                          !.group_entries = r.val,
                          !.metric_name_base = MetricNameBase(f.path),
                          !.is_list = (r.val.t = "list")])

\* one turn of "for metric in metrics" (lines 116-139) on a running frame
LoopTurn(f, skips) ==
    IF f.mi > Len(f.metrics)
    THEN [frame |-> Finished(f), kind |-> "stop", gauge |-> NoGauge, err |-> "none", evs |-> <<>>]
    ELSE LET metric == f.metrics[f.mi]
             gauge == GaugeMetricFamily(f.metric_name_base \o metric,
                                        Documented(f.path, metric), metric)
             p == IF f.is_list
                  THEN PopulateList(f.group_entries.v, 1, f.mi, metric, f.label_key,
                                    skips, <<>>, <<>>)
                  ELSE PopulateScalar(f.group_entries, f.mi, metric)
         IN  IF ~p.ok
             THEN [frame |-> Finished(f), kind |-> "raise", gauge |-> NoGauge,
                   err |-> p.err, evs |-> p.evs]
             ELSE [frame |-> [f EXCEPT !.mi = f.mi + 1], kind |-> "yield",
                   gauge |-> [gauge EXCEPT !.samples = p.samples],
                   err |-> "none", evs |-> Append(p.evs, Event("yield", f.mi, 0))]

\* next(frame); stats and skips are the objects the parameters stats and
\* skip_ids refer to
Resume(f, stats, skips) ==
    IF f.st = "finished"
    THEN [frame |-> f, kind |-> "stop", gauge |-> NoGauge, err |-> "none", evs |-> <<>>]
    ELSE IF f.st = "created"
    THEN LET s == Prologue(f, stats)
         IN  IF ~s.ok
             THEN [frame |-> Finished(f), kind |-> "raise", gauge |-> NoGauge,
                   err |-> s.err, evs |-> <<>>]
             ELSE LoopTurn(s.val, skips)
    ELSE LoopTurn(f, skips)

\* a list the generator appends the ids it has seen to
SkipIdsRemembering(skips, gauge) ==
    IF gauge.samples = <<>> \/ gauge.samples[1].labels[1].t # "str" THEN skips
    ELSE Append(skips, gauge.samples[1].labels[1].v)

\* the default skip_ids list after a next(): the body only reads it
SkipIdsAfter(skips, gauge) == skips

----------------------------------------------------------------------------
(* A direct consumer of generate_metric_group(stats, path, metrics), with  *)
(* the default label_key and skip_ids.                                     *)

NewCall(stats, path, metrics) ==
    [stats |-> stats, frame |-> NewFrame(path, metrics), status |-> "open",
     out |-> <<>>, err |-> "none", log |-> <<>>]

NoCall == [NewCall(Null, <<>>, <<>>) EXCEPT !.status = "closed"]

\* the consumer's view of the call after a next() that ended as r
CallAfter(c, r) ==
    [c EXCEPT !.frame = r.frame,
              !.status = CASE r.kind = "yield" -> "open"
                           [] r.kind = "raise" -> "raised"
                           [] c.status = "raised" -> "raised"
                           [] OTHER -> "exhausted",
              !.out = IF r.kind = "yield" THEN Append(@, r.gauge) ELSE @,
              !.err = IF r.kind = "raise" THEN r.err ELSE @,
              !.log = @ \o r.evs]

\* the consumer calls next() on the generator
CallNext ==
    /\ call.status # "closed"
    /\ call' = CallAfter(call, Resume(call.frame, call.stats, skip_ids))
    /\ skip_ids' = SkipIdsAfter(skip_ids, Resume(call.frame, call.stats, skip_ids).gauge)
    /\ UNCHANGED <<upstream, scrape>>

\* the consumer stops early and drops the generator
CallClose ==
    /\ call.status = "open"
    /\ call' = [call EXCEPT !.status = "closed"]
    /\ UNCHANGED <<upstream, skip_ids, scrape>>

----------------------------------------------------------------------------
(* Bounded inputs of the direct call *)

MaxPathLen == 4
MaxEntries == 2

Alphabet == {"/", "a", "b"}

\* every str over Alphabet of at most MaxPathLen characters
Paths == UNION {[1..n -> Alphabet] : n \in 0..MaxPathLen}

\* dicts over the keys K with values in V, any subset of the keys present
Dicts(K, V) == UNION {{Map(f) : f \in [D -> V]} : D \in SUBSET K}

\* documents for path resolution: two levels of dicts over leaves
Leaves == {Num(1), List(<<>>)}
Inner == Leaves \cup Dicts({"", "b"}, Leaves)
PathTrees == Inner \cup Dicts({"", "a"}, Inner)

PathInputs ==
    {[stats |-> t, path |-> p, metrics |-> <<"b">>] : t \in PathTrees, p \in Paths}

\* a dict with the key absent or bound to one of V
Opt(key, V) == {<<>>} \cup {key :> x : x \in V}

\* entries of a group: dicts with or without an id and each of two fields,
\* and one entry that is no dict
Entries ==
    {Map(a @@ b @@ c) : a \in Opt("id", {Str("all"), Str("eth0")}),
                        b \in Opt("bytes_in", {Num(0), Num(73)}),
                        c \in Opt("bytes_out", {Num(5)})}
    \cup {Num(7)}

Lists == {List(s) : s \in UNION {[1..n -> Entries] : n \in 0..MaxEntries}}

\* what a path may lead to: a list of entries, a single dict, a scalar
Groups == Lists \cup Entries \cup {Null, Str("x")}

MetricLists ==
    {<<>>, <<"bytes_in">>, <<"bytes_in", "bytes_out">>, <<"bytes_out", "bytes_in">>}

GroupInputs ==
    {[stats |-> Map("a" :> g), path |-> p, metrics |-> ms] :
        g \in Groups, p \in {<<"/", "a">>, <<"b", "/", "a">>}, ms \in MetricLists}
    \cup
    {[stats |-> Map("a" :> Map("b" :> g)), path |-> <<"/", "a", "/", "b">>, metrics |-> ms] :
        g \in Groups, ms \in MetricLists}

Inputs == PathInputs \cup GroupInputs

InitGen ==
    /\ upstream = [kind |-> "down", status |-> 0, json |-> FALSE, body |-> Null]
    /\ skip_ids = <<"all">>
    /\ scrape = <<>>
    /\ \E in \in Inputs : call = NewCall(in.stats, in.path, in.metrics)

NextGen == CallNext \/ CallClose

SpecGen == InitGen /\ [][NextGen]_vars

----------------------------------------------------------------------------
(* What a path addresses, stated from the positions of its slashes.        *)

SlashAt(path) == {i \in 1..Len(path) : path[i] = "/"}

\* the number of segments after the first one
NKeys(path) == Cardinality(SlashAt(path))

\* the position of the j-th slash
SlashPos(path, j) ==
    CHOOSE p \in SlashAt(path) : Cardinality({q \in SlashAt(path) : q <= p}) = j

\* the j-th segment after the first one, as a key
KeyOf(path, j) ==
    LET last == IF j = NKeys(path) THEN Len(path) ELSE SlashPos(path, j + 1) - 1
    IN  Join(SubSeq(path, SlashPos(path, j) + 1, last))

RECURSIVE NodeAt(_, _, _)
\* the node reached from tree by the first n keys of path
NodeAt(tree, path, n) ==
    IF n = 0 THEN tree ELSE NodeAt(tree, path, n - 1).v[KeyOf(path, n)]

RECURSIVE Resolvable(_, _, _)
\* each of the first n keys is a key of the dict reached before it
Resolvable(tree, path, n) ==
    \/ n = 0
    \/ /\ Resolvable(tree, path, n - 1)
       /\ LET p == NodeAt(tree, path, n - 1)
          IN  p.t = "map" /\ KeyOf(path, n) \in DOMAIN p.v

\* C9: get_value(tree, path) drops the first segment of path.split('/') and
\* indexes by each remaining segment in order: it returns exactly the node the
\* whole key sequence addresses, raises KeyError where a key is missing from the
\* dict reached so far and TypeError where the node reached so far is no dict.
C9_GetValueAddresses ==
    LET f == call.frame
        n == NKeys(f.path)
    IN  f.st # "created" =>
          IF f.group_entries # Unbound
          THEN /\ Resolvable(call.stats, f.path, n)
               /\ f.group_entries = NodeAt(call.stats, f.path, n)
          ELSE /\ call.status = "raised"
               /\ call.out = <<>>
               /\ \E j \in 1..n :
                    /\ Resolvable(call.stats, f.path, j - 1)
                    /\ LET p == NodeAt(call.stats, f.path, j - 1)
                       IN  \/ /\ call.err = "KeyError"
                              /\ p.t = "map"
                              /\ KeyOf(f.path, j) \notin DOMAIN p.v
                           \/ /\ call.err = "TypeError"
                              /\ p.t # "map"

\* C9 witness: a path whose first segment is not empty resolved through two keys
C9_Witness ==
    /\ call.frame.path = <<"b", "/", "/", "b">>
    /\ call.frame.group_entries = Num(1)
    /\ call.frame.st # "created"

----------------------------------------------------------------------------
(* The direct call's group and what its gauges must hold *)

Group == call.frame.group_entries
Metrics == call.frame.metrics
Resolved == call.frame.st # "created" /\ Group # Unbound

\* a dict carrying an id and every declared field
FullEntry(e) ==
    /\ e.t = "map"
    /\ "id" \in DOMAIN e.v
    /\ \A k \in 1..Len(Metrics) : Metrics[k] \in DOMAIN e.v

WellFormedList == Group.t = "list" /\ \A i \in 1..Len(Group.v) : FullEntry(Group.v[i])
WellFormedDict == Group.t = "map" /\ \A k \in 1..Len(Metrics) : Metrics[k] \in DOMAIN Group.v

\* the entries of the list whose id is not "all", in list order
Kept == SelectSeq(Group.v, LAMBDA e : e.v["id"] # Str("all"))

RECURSIVE Points(_)
\* the number of labelled points of a sequence of gauges
Points(gauges) ==
    IF gauges = <<>> THEN 0 ELSE Len(Head(gauges).samples) + Points(Tail(gauges))

\* C1: on a well-formed tree a full consumption of generate_metric_group never
\* fails and emits one gauge per field, holding in total
\* len(fields) * (entries whose id is not skipped) points for a list and
\* len(fields) points, one per gauge, for a single dict.
C1_PointCount ==
    (Resolved /\ (WellFormedList \/ WellFormedDict)) =>
        /\ call.status # "raised"
        /\ Len(call.out) <= Len(Metrics)
        /\ call.status = "exhausted" =>
              /\ Len(call.out) = Len(Metrics)
              /\ IF Group.t = "list"
                 THEN Points(call.out) = Len(Metrics) * Len(Kept)
                 ELSE /\ Points(call.out) = Len(Metrics)
                      /\ \A m \in 1..Len(call.out) : Len(call.out[m].samples) = 1

\* C1 witness: two fields over a list of two entries, one of them "all"
C1_Witness ==
    /\ Resolved
    /\ WellFormedList
    /\ call.status = "exhausted"
    /\ Len(Metrics) = 2
    /\ Len(Group.v) = 2
    /\ Len(Kept) = 1
    /\ Points(call.out) = 2

\* C2: with the default skip_ids no point of a list-shaped group is labelled
\* "all"; the entries with any other id each contribute their point, in order.
C2_AllSkipped ==
    (Resolved /\ Group.t = "list") =>
        \A m \in 1..Len(call.out) :
            LET s == call.out[m].samples
            IN  /\ \A k \in 1..Len(s) : s[k].labels # <<Str("all")>>
                /\ Len(s) = Len(Kept)
                /\ \A k \in 1..Len(s) : s[k].labels = <<Kept[k].v["id"]>>

\* C2 witness: entries all and eth0 yield the single point (eth0, 73)
C2_Witness ==
    /\ Resolved
    /\ Group = List(<< Map(("id" :> Str("all")) @@ ("bytes_in" :> Num(0))),
                       Map(("id" :> Str("eth0")) @@ ("bytes_in" :> Num(73))) >>)
    /\ Metrics = <<"bytes_in">>
    /\ Len(call.out) = 1
    /\ call.out[1].samples = << [labels |-> <<Str("eth0")>>, value |-> Num(73)] >>

\* the path without its first character, each '/' turned into '_', then '_'
\* and the field
ExpectedName(path, field) ==
    Join([i \in 1..(Len(path) - 1) |->
            IF path[i + 1] = "/" THEN "_" ELSE path[i + 1]]) \o "_" \o field

\* C3: the m-th gauge is named from (path, field) alone, and each point holds
\* the value stored in the tree under that field: entry[field] labelled with
\* the entry id for a list, node[field] labelled with the field for a dict.
C3_NameAndValue ==
    Resolved =>
        \A m \in 1..Len(call.out) :
            LET g == call.out[m]
                field == Metrics[m]
            IN  /\ (Len(call.frame.path) >= 1 /\ call.frame.path[1] = "/")
                       => g.name = ExpectedName(call.frame.path, field)
                /\ g.labels = <<field>>
                /\ IF Group.t = "list"
                   THEN g.samples = [k \in 1..Len(Kept) |->
                                       [labels |-> <<Kept[k].v["id"]>>,
                                        value |-> Kept[k].v[field]]]
                   ELSE g.samples = << [labels |-> <<Str(field)>>,
                                        value |-> Group.v[field]] >>

\* C3 witness: both gauges of a dict at /a/b, with different values
C3_Witness ==
    /\ Resolved
    /\ call.frame.path = <<"/", "a", "/", "b">>
    /\ Group.t = "map"
    /\ Len(call.out) = 2
    /\ call.out[1].name = "a_b_bytes_in"
    /\ call.out[1].samples = << [labels |-> <<Str("bytes_in")>>, value |-> Num(73)] >>
    /\ call.out[2].name = "a_b_bytes_out"
    /\ call.out[2].samples = << [labels |-> <<Str("bytes_out")>>, value |-> Num(5)] >>

\* field k of the direct call is missing from an entry that is not skipped
Lacking(k) ==
    \E i \in 1..Len(Group.v) :
        LET e == Group.v[i]
        IN  /\ e.t = "map"
            /\ "id" \in DOMAIN e.v
            /\ e.v["id"] # Str("all")
            /\ Metrics[k] \notin DOMAIN e.v

\* every entry of the list is a dict with an id
EntriesLabelled ==
    \A i \in 1..Len(Group.v) : Group.v[i].t = "map" /\ "id" \in DOMAIN Group.v[i].v

\* C8 as stated: a declared field missing from any element of the list makes
\* the call fail, so no consumption of such a group runs to its end.
C8_AnyElementFails ==
    (/\ Resolved
     /\ Group.t = "list"
     /\ \E i \in 1..Len(Group.v), k \in 1..Len(Metrics) :
            Group.v[i].t = "map" /\ Metrics[k] \notin DOMAIN Group.v[i].v)
        => call.status # "exhausted"

\* C8 amended: a declared field missing from an entry whose id is not in
\* skip_ids makes the call fail with KeyError at the first such field: the
\* gauges of the fields before it are delivered, none for it or after it, and
\* no gauge is ever delivered with a default or without that entry's point.
C8_KeptEntryFails ==
    (Resolved /\ Group.t = "list") =>
        /\ \A k \in 1..Len(call.out) : ~Lacking(k)
        /\ \A k \in 1..Len(call.out) :
              EntriesLabelled /\ Len(call.out[k].samples) = Len(Kept)
        /\ (/\ EntriesLabelled
            /\ call.status \in {"exhausted", "raised"}
            /\ \E k \in 1..Len(Metrics) : Lacking(k))
              => /\ call.status = "raised"
                 /\ call.err = "KeyError"
                 /\ Lacking(Len(call.out) + 1)

\* C8 witness: eth0 lacks bytes_out, the skipped entry lacks both fields
C8_Witness ==
    /\ Resolved
    /\ Group = List(<< Map("id" :> Str("all")),
                       Map(("id" :> Str("eth0")) @@ ("bytes_in" :> Num(73))) >>)
    /\ Metrics = <<"bytes_in", "bytes_out">>
    /\ call.status = "raised"
    /\ call.err = "KeyError"
    /\ Len(call.out) = 1

\* C10 as stated: a point is handed to the caller before the next entry is read.
C10_PointBeforeNextEntry ==
    \A i \in 1..Len(call.log), j \in 1..Len(call.log) :
        (i < j /\ call.log[i].ev = "add" /\ call.log[j].ev = "read")
            => \E k \in i..j : call.log[k].ev = "yield"

\* C10 amended: the output is lazy gauge by gauge.  Calling the function runs
\* nothing; each next() reads every entry of the list for one field and then
\* hands over that field's gauge; no entry is read for a field the caller has
\* not asked for; a finished generator yields and evaluates nothing more.
C10_LazyPerGauge ==
    /\ call.frame.st = "created" => (call.log = <<>> /\ Group = Unbound /\ call.out = <<>>)
    /\ \A i \in 1..Len(call.log) :
          call.log[i].m <= Len(call.out) + (IF call.status = "raised" THEN 1 ELSE 0)
    /\ (Resolved /\ Group.t = "list") =>
          \A m \in 1..Len(call.out) :
              \E y \in 1..Len(call.log) :
                  /\ call.log[y] = Event("yield", m, 0)
                  /\ \A e \in 1..Len(Group.v) :
                        \E r \in 1..(y - 1) : call.log[r] = Event("read", m, e)
    /\ call.status \in {"exhausted", "raised"} =>
          LET r == Resume(call.frame, call.stats, skip_ids)
          IN  r.kind = "stop" /\ r.evs = <<>> /\ r.frame = call.frame

\* C10 witness: the caller stopped after the first of two gauges of a list of
\* two kept entries; both entries were read for field 1, none for field 2
C10_Witness ==
    /\ call.status = "closed"
    /\ Len(Metrics) = 2
    /\ call.log = << Event("read", 1, 1), Event("add", 1, 1),
                     Event("read", 1, 2), Event("add", 1, 2), Event("yield", 1, 0) >>

----------------------------------------------------------------------------
(* get_stats and AMPSCollector *)

\* get_stats(host): requests.get(...).json().  A transport failure raises;
\* otherwise the body is parsed, whatever the status code of the response.
get_stats(resp) ==
    IF resp.kind = "down" THEN Raise("ConnectionError")
    ELSE IF ~resp.json THEN Raise("JSONDecodeError")
    ELSE Ok(resp.body)

GroupCall(path, metrics) == [path |-> path, metrics |-> metrics]

\* the generate_metric_group calls of each collect_* method, in source order
collect_host_metrics ==
    << GroupCall(PATH_memory, <<"free", "in_use", "swap_free", "swap_total">>),
       GroupCall(PATH_network, <<"bytes_in", "bytes_out">>),
       GroupCall(PATH_disks, <<"file_system_free_percent">>),
       GroupCall(PATH_cpus, <<"iowait_percent", "idle_percent">>) >>

collect_message_flow_metrics ==
    << GroupCall(PATH_processors, <<"messages_received_per_sec", "denied_reads",
                                    "denied_writes", "last_active", "throttle_count">>) >>

collect_sow_metrics ==
    << GroupCall(PATH_sow, <<"inserts_per_sec", "updates_per_sec", "deletes_per_sec",
                             "queries_per_sec", "insert_count", "delete_count",
                             "update_count">>) >>

collect_views_metrics == << GroupCall(PATH_views, <<"queue_depth">>) >>

collect_queue_metrics ==
    << GroupCall(PATH_queues, <<"seconds_behind", "queue_depth", "transferred_in",
                                "transferred_out", "owned">>) >>

collect_replication_metrics ==
    << GroupCall(PATH_replication, <<"is_connected", "seconds_behind",
                                     "messages_out_per_sec">>) >>

collect_application_connection_metrics ==
    << GroupCall(PATH_clients, <<"transport_rx_queue", "transport_tx_queue",
                                 "bytes_in_per_sec", "bytes_out_per_sec",
                                 "queue_depth_out", "queue_max_latency">>) >>

\* collect with the sow and message flow groups exchanged
collect_calls_swapped ==
    collect_host_metrics \o collect_sow_metrics \o collect_message_flow_metrics
    \o collect_views_metrics \o collect_queue_metrics \o collect_replication_metrics
    \o collect_application_connection_metrics

\* the "yield from" chain of collect, flattened
collect_calls ==
    collect_host_metrics \o collect_message_flow_metrics \o collect_sow_metrics
    \o collect_views_metrics \o collect_queue_metrics \o collect_replication_metrics
    \o collect_application_connection_metrics

NoFrame == NewFrame(<<>>, <<>>)

\* the call collector.collect(): a generator, nothing runs yet
NewCollect == [st |-> "created", stats |-> Unbound, gi |-> 0, sub |-> NoFrame]

Outcome(frame, kind, gauge, err, fetched, invoked) ==
    [frame |-> frame, kind |-> kind, gauge |-> gauge, err |-> err,
     fetched |-> fetched, invoked |-> invoked]

RECURSIVE DelegateSkipErrors(_, _, _, _)
\* delegation that drops a failing group and goes on with the next one
DelegateSkipErrors(c, skips, fetched, invoked) ==
    LET r == Resume(c.sub, c.stats, skips)
    IN  IF r.kind = "yield"
        THEN Outcome([c EXCEPT !.sub = r.frame], "yield", r.gauge, "none", fetched, invoked)
        ELSE IF c.gi >= Len(collect_calls)
             THEN Outcome([c EXCEPT !.st = "finished", !.sub = r.frame], "stop", NoGauge,
                          "none", fetched, invoked)
             ELSE LET g == collect_calls[c.gi + 1]
                  IN  DelegateSkipErrors([c EXCEPT !.gi = c.gi + 1,
                                              !.sub = NewFrame(g.path, g.metrics)],
                                    skips, fetched, invoked + 1)

RECURSIVE Delegate(_, _, _, _)
\* "yield from" the current group generator; when it ends, call the next
\* generate_metric_group of the chain; an exception passes through
Delegate(c, skips, fetched, invoked) ==
    LET r == Resume(c.sub, c.stats, skips)
    IN  IF r.kind = "yield"
        THEN Outcome([c EXCEPT !.sub = r.frame], "yield", r.gauge, "none", fetched, invoked)
        ELSE IF r.kind = "raise"
        THEN Outcome([c EXCEPT !.st = "finished", !.sub = r.frame], "raise", NoGauge,
                     r.err, fetched, invoked)
        ELSE IF c.gi >= Len(collect_calls)
             THEN Outcome([c EXCEPT !.st = "finished", !.sub = r.frame], "stop", NoGauge,
                          "none", fetched, invoked)
             ELSE LET g == collect_calls[c.gi + 1]
                  IN  Delegate([c EXCEPT !.gi = c.gi + 1,
                                         !.sub = NewFrame(g.path, g.metrics)],
                               skips, fetched, invoked + 1)

\* next() on the generator of collect
CollectResume(c, resp, skips) ==
    IF c.st = "finished"
    THEN Outcome(c, "stop", NoGauge, "none", 0, 0)
    ELSE IF c.st = "created"
    THEN LET s == get_stats(resp)
         IN  IF ~s.ok
             THEN Outcome([c EXCEPT !.st = "finished"], "raise", NoGauge, s.err, 1, 0)
             ELSE LET g == collect_calls[1]
                  IN  Delegate([c EXCEPT !.st = "running", !.stats = s.val, !.gi = 1,
                                         !.sub = NewFrame(g.path, g.metrics)],
                               skips, 1, 1)
    ELSE Delegate(c, skips, 0, 0)

NoScrape ==
    [st |-> "idle", frame |-> NewCollect, out |-> <<>>, err |-> "none",
     fetches |-> 0, invoked |-> 0]

\* the registry's view of scrape x after a next() that ended as r
ScrapeAfter(x, r) ==
    [st |-> CASE r.kind = "yield" -> "open"
              [] r.kind = "raise" -> "raised"
              [] OTHER -> "exhausted",
     frame |-> r.frame,
     out |-> IF r.kind = "yield" THEN Append(x.out, r.gauge) ELSE x.out,
     err |-> r.err,
     fetches |-> x.fetches + r.fetched,
     invoked |-> x.invoked + r.invoked]

\* the registry consumes one more gauge of scrape s (the first step calls
\* collect() and so creates the generator)
ScrapeNext(s) ==
    /\ scrape[s].st \in {"idle", "open"}
    /\ scrape' = [scrape EXCEPT ![s] =
                    ScrapeAfter(scrape[s], CollectResume(scrape[s].frame, upstream, skip_ids))]
    /\ skip_ids' = SkipIdsAfter(skip_ids,
                                CollectResume(scrape[s].frame, upstream, skip_ids).gauge)
    /\ UNCHANGED <<upstream, call>>

----------------------------------------------------------------------------
(* What the AMPS admin endpoint may answer *)

MaxScrapes == 2

\* the groups whose node the documents below may spoil
DefectGroups == {1, 2, 5}

Range(s) == {s[i] : i \in 1..Len(s)}

\* a dict giving the k-th field the number base + k
FieldsDict(fields, base) ==
    [f \in Range(fields) |-> Num(base + (CHOOSE k \in 1..Len(fields) : fields[k] = f))]

EntryOf(id, fields, base) == Map(("id" :> Str(id)) @@ FieldsDict(fields, base))

\* fields without the last one
Front(fields) == SubSeq(fields, 1, Len(fields) - 1)

\* the groups that report an "all" aggregate beside their entities
Aggregated == {2, 3, 4}

\* the node of the g-th documented group: memory is a single dict, every
\* other group a list of one entity, after the "all" aggregate if it has one
GroupNode(g, defect) ==
    LET fields == METRIC_DOCS[g].fields
        mine == IF defect = "lacks_last" THEN Front(fields) ELSE fields
    IN  IF defect = "scalar" THEN Num(7)
        ELSE IF g = 1 THEN Map(FieldsDict(mine, 0))
        ELSE List((IF g \in Aggregated THEN <<EntryOf("all", fields, 100)>> ELSE <<>>)
                  \o <<EntryOf("e1", mine, 0)>>)

\* key :> node, or nothing when the group is absent
Keyed(key, g, bad, defect) ==
    IF g # bad THEN key :> GroupNode(g, "none")
    ELSE IF defect = "absent" THEN <<>>
    ELSE key :> GroupNode(g, defect)

\* the document with group bad spoiled by defect (bad = 0: every group sound)
Doc(bad, defect) ==
    Map("amps" :> Map(
        ("host" :> Map(Keyed("memory", 1, bad, defect) @@ Keyed("network", 2, bad, defect)
                       @@ Keyed("disks", 3, bad, defect) @@ Keyed("cpus", 4, bad, defect)))
        @@
        ("instance" :> Map(Keyed("processors", 5, bad, defect) @@ Keyed("sow", 6, bad, defect)
                           @@ Keyed("views", 7, bad, defect) @@ Keyed("queues", 8, bad, defect)
                           @@ Keyed("replication", 9, bad, defect)
                           @@ Keyed("clients", 10, bad, defect)))))

\* what a server answers when it has no statistics to give
ErrorDoc == Map("error" :> Str("unavailable"))

Docs ==
    {Doc(0, "none"), ErrorDoc}
    \cup {Doc(g, d) : g \in DefectGroups, d \in {"absent", "scalar", "lacks_last"}}

Down == [kind |-> "down", status |-> 0, json |-> FALSE, body |-> Null]
Http(status, json, body) == [kind |-> "http", status |-> status, json |-> json, body |-> body]

\* no answer; a body that is not JSON; a JSON document.  An error status
\* comes with an error page, an error document or a partial document
Responses ==
    {Down}
    \cup {Http(st, FALSE, Null) : st \in {200, 500}}
    \cup {Http(200, TRUE, d) : d \in Docs}
    \cup {Http(500, TRUE, d) : d \in {ErrorDoc, Doc(2, "absent")}}

Scrapes == 1..MaxScrapes

Init ==
    /\ upstream \in Responses
    /\ skip_ids = <<"all">>
    /\ scrape = [s \in Scrapes |-> NoScrape]
    /\ call = NoCall

Next == \E s \in Scrapes : ScrapeNext(s)

Spec == Init /\ [][Next]_vars

----------------------------------------------------------------------------
(* What a scrape must deliver, stated from METRIC_DOCS and the document *)

RECURSIVE FieldsFrom(_)
\* the (path, field) pairs of METRIC_DOCS from group g on, in table order
FieldsFrom(g) ==
    IF g > Len(METRIC_DOCS) THEN <<>>
    ELSE [k \in 1..Len(METRIC_DOCS[g].fields) |->
             [path |-> METRIC_DOCS[g].path, field |-> METRIC_DOCS[g].fields[k]]]
         \o FieldsFrom(g + 1)

TableFields == FieldsFrom(1)

\* the gauge of (path, field) cannot be built from stats
FieldFails(stats, path, field) ==
    \/ ~Resolvable(stats, path, NKeys(path))
    \/ LET node == NodeAt(stats, path, NKeys(path))
       IN  CASE node.t = "list" ->
                  \E i \in 1..Len(node.v) :
                      LET e == node.v[i]
                      IN  \/ e.t # "map"
                          \/ "id" \notin DOMAIN e.v
                          \/ (e.v["id"] # Str("all") /\ field \notin DOMAIN e.v)
             [] node.t = "map" -> field \notin DOMAIN node.v
             [] OTHER -> TRUE

\* the points of the gauge of (path, field) over stats
ExpectedSamples(stats, path, field) ==
    LET node == NodeAt(stats, path, NKeys(path))
    IN  IF node.t = "list"
        THEN LET kept == SelectSeq(node.v, LAMBDA e : e.v["id"] # Str("all"))
             IN  [k \in 1..Len(kept) |->
                     [labels |-> <<kept[k].v["id"]>>, value |-> kept[k].v[field]]]
        ELSE << [labels |-> <<Str(field)>>, value |-> node.v[field]] >>

\* the gauge names of a complete scrape, in table order
ExpectedNames ==
    [i \in 1..Len(TableFields) |-> ExpectedName(TableFields[i].path, TableFields[i].field)]

\* for each document, the table positions whose gauge cannot be built
DocFails ==
    [d \in Docs |-> {i \in 1..Len(TableFields) :
                        FieldFails(d, TableFields[i].path, TableFields[i].field)}]

\* for each document, the points of each gauge that can be built
DocSamples ==
    [d \in Docs |-> [i \in 1..Len(TableFields) |->
                        IF i \in DocFails[d] THEN <<>>
                        ELSE ExpectedSamples(d, TableFields[i].path, TableFields[i].field)]]

\* C4 as stated: a scrape that ends in an error has handed no gauge to the
\* consumer of collect.
C4_NoGaugeOfFailedScrape ==
    \A s \in Scrapes : scrape[s].st = "raised" => scrape[s].out = <<>>

\* C4 amended: an error raised during a scrape stops it at that point.  The
\* error reaches the consumer, nothing is delivered after it and the gauge
\* under construction is never delivered; the gauges of the fields that
\* precede the failing one in table order have been delivered before it.
C4_AbortAtFailure ==
    \A s \in Scrapes :
        LET x == scrape[s]
            n == Len(x.out)
        IN  /\ n <= Len(TableFields)
            /\ \A i \in 1..n :
                  /\ x.out[i].name = ExpectedNames[i]
                  /\ x.frame.stats \in Docs
                  /\ i \notin DocFails[x.frame.stats]
            /\ x.st = "exhausted" => n = Len(TableFields)
            /\ x.st = "raised" =>
                  /\ x.err # "none"
                  /\ CollectResume(x.frame, upstream, skip_ids).kind = "stop"
                  /\ IF x.frame.stats = Unbound THEN n = 0
                     ELSE /\ n < Len(TableFields)
                          /\ x.frame.stats \in Docs
                          /\ (n + 1) \in DocFails[x.frame.stats]

\* C4 witness: the entity of the network group lacks bytes_out; the four
\* memory gauges and bytes_in were delivered before the KeyError
C4_Witness ==
    \E s \in Scrapes :
        /\ scrape[s].st = "raised"
        /\ scrape[s].err = "KeyError"
        /\ Len(scrape[s].out) = 5
        /\ scrape[s].out[5].name = "amps_host_network_bytes_in"

\* C5: a failed fetch (no connection, a status outside 2xx, a body that is
\* not JSON) gives a scrape with no gauge and a fetch-level error, and the
\* generator is never run on its response.
C5_FailedFetchYieldsNothing ==
    (\/ upstream.kind = "down"
     \/ upstream.status \notin 200..299
     \/ ~upstream.json)
        => \A s \in Scrapes :
              /\ scrape[s].out = <<>>
              /\ scrape[s].invoked = 0
              /\ scrape[s].st \in {"idle", "raised"}
              /\ scrape[s].st = "raised" =>
                    scrape[s].err \in {"ConnectionError", "HTTPError", "JSONDecodeError"}

\* C6: a scrape fetches exactly once, before any gauge; generate_metric_group
\* is then called once per METRIC_DOCS entry, in table order, with exactly the
\* fields documented for the path (the i-th call made is the one under way
\* while the gauges of the i-th entry come out); the gauges come out in that
\* order, all built from the one fetched document.
C6_FetchOnceThenTableOrder ==
    \A s \in Scrapes :
        LET x == scrape[s]
        IN  /\ x.fetches = (IF x.st = "idle" THEN 0 ELSE 1)
            /\ x.invoked <= Len(METRIC_DOCS)
            /\ x.invoked > 0 =>
                  /\ x.frame.stats = upstream.body
                  /\ x.frame.sub.path = METRIC_DOCS[x.invoked].path
                  /\ x.frame.sub.metrics = METRIC_DOCS[x.invoked].fields
                  /\ Len(x.out) >= Len(FieldsFrom(1)) - Len(FieldsFrom(x.invoked))
                  /\ Len(x.out) <= Len(FieldsFrom(1)) - Len(FieldsFrom(x.invoked + 1))
            /\ x.st = "exhausted" =>
                  /\ x.invoked = Len(METRIC_DOCS)
                  /\ Len(x.out) = Len(TableFields)
            /\ Len(x.out) <= Len(TableFields)
            /\ \A i \in 1..Len(x.out) :
                  /\ x.out[i].name = ExpectedNames[i]
                  /\ x.out[i].documented
                  /\ x.out[i].samples = DocSamples[upstream.body][i]

\* C6 witness: a complete scrape of a sound document
C6_Witness ==
    \E s \in Scrapes :
        /\ upstream.status = 200
        /\ scrape[s].st = "exhausted"
        /\ scrape[s].fetches = 1
        /\ scrape[s].invoked = 10
        /\ Len(scrape[s].out) = 36
        /\ scrape[s].out[1].name = "amps_host_memory_free"
        /\ scrape[s].out[5].name = "amps_host_network_bytes_in"
        /\ scrape[s].out[36].name = "amps_instance_clients_queue_max_latency"

\* C7: scrapes of the same document, one after the other or interleaved,
\* deliver the same gauges in the same order and end the same way (the same
\* error at the same point); the default skip list is never changed.
C7_SameTreeSameOutcome ==
    /\ skip_ids = <<"all">>
    /\ \A s1 \in Scrapes, s2 \in Scrapes :
          LET x == scrape[s1]
              y == scrape[s2]
          IN  (x.st # "idle" /\ y.st # "idle" /\ x.frame.stats = y.frame.stats) =>
                /\ \A i \in 1..Len(x.out) : i <= Len(y.out) => x.out[i] = y.out[i]
                /\ x.st \in {"exhausted", "raised"} => Len(y.out) <= Len(x.out)
                /\ (x.st \in {"exhausted", "raised"} /\ y.st \in {"exhausted", "raised"})
                      => (x.out = y.out /\ x.st = y.st /\ x.err = y.err)

\* C7 witness: two interleaved scrapes of one document, both under way
C7_Witness ==
    /\ MaxScrapes >= 2
    /\ scrape[1].st = "open"
    /\ scrape[2].st = "open"
    /\ Len(scrape[1].out) = 20
    /\ Len(scrape[2].out) = 7
    /\ scrape[1].frame.stats = scrape[2].frame.stats

====
